---- MODULE Spec2Model ----
(***************************************************************************)
(* Model of the crash-dump tooling of localdesktop:                        *)
(*   scripts/crash_analyzer.py     extract_crashpad_data, the decoder      *)
(*                                 chain decode_crashpad_data and          *)
(*                                 analyze_binary_data;                    *)
(*   scripts/minidump_analyzer.py  class MinidumpAnalyzer.                 *)
(* Text (str) and buffers (bytes) are sequences of character codes / byte  *)
(* values 0..255.  Python's None is the record None; every other Python    *)
(* value is a record carrying a "type" field, so that None can be told     *)
(* from any value.                                                         *)
(***************************************************************************)
EXTENDS Integers, Sequences, FiniteSets, TLC

VARIABLES
    pc,             \* position of the running entry point
    crash_log,      \* extract_crashpad_data: the argument
    crashpad_data,  \* extract_crashpad_data: the returned value
    encoded_data,   \* decode_crashpad_data: the argument
    tried,          \* decode_crashpad_data: the methods run so far, with outcomes
    result,         \* decode_crashpad_data / analyze_binary_data: returned value
    binary_data,    \* analyze_binary_data: the argument
    file_type,      \* analyze_binary_data: the descriptor it prints
    data,           \* MinidumpAnalyzer.data
    pos,            \* MinidumpAnalyzer.pos
    call,           \* MinidumpAnalyzer: the method called last
    args,           \* MinidumpAnalyzer: the arguments of that call
    ret             \* MinidumpAnalyzer: what that method returned

vars == <<pc, crash_log, crashpad_data, encoded_data, tried, result,
          binary_data, file_type, data, pos, call, args, ret>>

----------------------------------------------------------------------------
(* Bounds of the input families.                                           *)

\* log texts are concatenations of at most MaxFrags fragments
MaxFrags == 4

----------------------------------------------------------------------------
(* Python values and str / bytes primitives.                               *)

None == [type |-> "None"]

Str(s) == [type |-> "str", value |-> s]

Min(a, b) == IF a < b THEN a ELSE b

Max(a, b) == IF a > b THEN a ELSE b

\* s[i:j] with 0-based, clamped bounds (Python slicing)
Slice(s, i, j) == SubSeq(s, Max(i, 0) + 1, Min(j, Len(s)))

\* s.startswith(pat, i) for a 0-based offset i
StartsAt(s, i, pat) ==
    /\ i + Len(pat) <= Len(s)
    /\ \A k \in 1..Len(pat) : s[i + k] = pat[k]

\* the least / greatest element of a non-empty set of integers
MinOf(S) == CHOOSE x \in S : \A y \in S : x <= y

MaxOf(S) == CHOOSE x \in S : \A y \in S : x >= y

\* the 0-based offsets >= i at which pat occurs in s
Occurrences(s, pat, i) == {k \in i..(Len(s) - Len(pat)) : StartsAt(s, k, pat)}

\* s.find(pat): the lowest 0-based offset at which pat occurs, -1 when none
find(s, pat) ==
    IF Occurrences(s, pat, 0) = {} THEN -1 ELSE MinOf(Occurrences(s, pat, 0))

\* pat in s
Contains(s, pat) == \E i \in 0..(Len(s) - Len(pat)) : StartsAt(s, i, pat)

\* the scan of s.replace(old, '') from 0-based offset i: copy up to the next
\* occurrence of old, skip it, go on behind it
RECURSIVE replace_from(_, _, _)
replace_from(s, old, i) ==
    IF Occurrences(s, old, i) = {} THEN SubSeq(s, i + 1, Len(s))
    ELSE LET p == MinOf(Occurrences(s, old, i))
         IN  SubSeq(s, i + 1, p) \o replace_from(s, old, p + Len(old))

\* s.replace(old, ''): one left-to-right pass over the non-overlapping
\* occurrences of old
replace(s, old) == replace_from(s, old, 0)

\* the characters of code 0..255 that str.strip() removes and \s matches:
\* the ASCII ones, U+0085 (next line) and U+00A0 (no-break space)
Whitespace == {9, 10, 11, 12, 13, 28, 29, 30, 31, 32, 133, 160}

strip(s) ==
    LET keep == {i \in 1..Len(s) : s[i] \notin Whitespace}
    IN  IF keep = {} THEN <<>>
        ELSE SubSeq(s, MinOf(keep), MaxOf(keep))

RECURSIVE join(_)
join(parts) == IF parts = <<>> THEN <<>> ELSE Head(parts) \o join(Tail(parts))

----------------------------------------------------------------------------
(* crash_analyzer.py: extract_crashpad_data                                *)

\* 'F crashpad: '
CrashpadMarker == <<70, 32, 99, 114, 97, 115, 104, 112, 97, 100, 58, 32>>

\* '-----BEGIN CRASHPAD MINIDUMP-----'
BeginSentinel ==
    <<45, 45, 45, 45, 45, 66, 69, 71, 73, 78, 32, 67, 82, 65, 83, 72, 80, 65,
      68, 32, 77, 73, 78, 73, 68, 85, 77, 80, 45, 45, 45, 45, 45>>

\* '-----END CRASHPAD MINIDUMP-----'
EndSentinel ==
    <<45, 45, 45, 45, 45, 69, 78, 68, 32, 67, 82, 65, 83, 72, 80, 65, 68, 32,
      77, 73, 78, 73, 68, 85, 77, 80, 45, 45, 45, 45, 45>>

\* the characters the group [^$\n] excludes: '$' and newline
GroupStop == {36, 10}

\* last 1-based index of the greedy run [^$\n]+ that starts at index j
run_end(s, j) ==
    MinOf({k \in j..Len(s) : k = Len(s) \/ s[k + 1] \in GroupStop})

\* the 0-based offsets >= i at which r'F crashpad: ([^$\n]+)' matches: the
\* marker, then at least one character of the group
MatchStarts(s, i) ==
    {k \in Occurrences(s, CrashpadMarker, i) :
        /\ k + Len(CrashpadMarker) < Len(s)
        /\ s[k + Len(CrashpadMarker) + 1] \notin GroupStop}

\* re.findall(r'F crashpad: ([^$\n]+)', s): the groups of the
\* non-overlapping matches, scanning from 0-based offset i
RECURSIVE findall_from(_, _)
findall_from(s, i) ==
    IF MatchStarts(s, i) = {} THEN <<>>
    ELSE LET b == MinOf(MatchStarts(s, i)) + Len(CrashpadMarker) + 1
             e == run_end(s, b)
         IN  <<SubSeq(s, b, e)>> \o findall_from(s, e)

extract_crashpad_data(log) ==
    LET matches == findall_from(log, 0)
    IN  IF matches = <<>> THEN None
        ELSE Str(strip(replace(replace(join(matches), BeginSentinel),
                               EndSentinel)))

----------------------------------------------------------------------------
(* Inputs of the extractor: log texts assembled from fragments.            *)

LogFragments ==
    { CrashpadMarker,
      BeginSentinel,
      EndSentinel,
      <<45, 45, 45, 45, 45, 66, 69, 71, 73, 78, 32, 67, 82, 65, 83, 72>>, \* '-----BEGIN CRASH'
      <<80, 65, 68, 32, 77, 73, 78, 73, 68, 85, 77, 80, 45, 45, 45, 45, 45>>, \* 'PAD MINIDUMP-----'
      <<10>>,                      \* newline
      <<81, 85, 74, 68, 32>>,      \* 'QUJD '
      <<36>>,                      \* '$'
      <<160>> }                    \* U+00A0, no-break space

RECURSIVE Concats(_, _)
Concats(frags, n) ==
    IF n = 0 THEN {<<>>}
    ELSE LET shorter == Concats(frags, n - 1)
         IN  shorter \cup {f \o s : f \in frags, s \in shorter}

LogTexts == Concats(LogFragments, MaxFrags)

IdleExtract == crash_log = <<>> /\ crashpad_data = None

IdleDecode == encoded_data = <<>> /\ tried = <<>> /\ result = None

IdleBinary == binary_data = <<>> /\ file_type = None

IdleAnalyzer ==
    data = <<>> /\ pos = 0 /\ call = "none" /\ args = <<>> /\ ret = None

InitExtract ==
    /\ pc = "extract_call"
    /\ crash_log \in LogTexts
    /\ crashpad_data = None
    /\ IdleDecode /\ IdleBinary /\ IdleAnalyzer

Extract ==
    /\ pc = "extract_call"
    /\ crashpad_data' = extract_crashpad_data(crash_log)
    /\ pc' = "extract_return"
    /\ UNCHANGED <<crash_log, encoded_data, tried, result, binary_data,
                   file_type, data, pos, call, args, ret>>

SpecExtract == InitExtract /\ [][Extract]_vars

\* C3: the blob the Extractor returns contains neither sentinel, and a log
\* without a payload line gives None instead of a blob.
ExtractedBlobHasNoSentinel ==
    pc = "extract_return" =>
        IF MatchStarts(crash_log, 0) = {}
        THEN crashpad_data = None
        ELSE /\ crashpad_data.type = "str"
             /\ ~Contains(crashpad_data.value, BeginSentinel)
             /\ ~Contains(crashpad_data.value, EndSentinel)

----------------------------------------------------------------------------
(* crash_analyzer.py: analyze_binary_data and extract_strings              *)

\* the body of "for byte in binary_data" in extract_strings: st.current is
\* current_string, st.strings is strings
strings_step(st, byte, min_length) ==
    IF 32 <= byte /\ byte <= 126
    THEN [st EXCEPT !.current = Append(@, byte)]
    ELSE [current |-> <<>>,
          strings |-> IF Len(st.current) >= min_length
                      THEN Append(st.strings, st.current) ELSE st.strings]

\* the loop run over b[lo..hi] from state st.  The bytes are taken left to
\* right; the range is halved, and the state after the left half is
\* evaluated (by the test, which always holds) before the right half runs,
\* only to keep TLC's evaluation shallow.
RECURSIVE strings_loop(_, _, _, _, _)
strings_loop(st, b, lo, hi, min_length) ==
    IF lo > hi THEN st
    ELSE IF lo = hi THEN strings_step(st, b[lo], min_length)
    ELSE LET mid == (lo + hi) \div 2
             left == strings_loop(st, b, lo, mid, min_length)
         IN  IF Len(left.current) >= 0
             THEN strings_loop(left, b, mid + 1, hi, min_length)
             ELSE left

\* extract_strings without the flush after the loop: a run that reaches the
\* end of the buffer is lost
extract_strings_no_flush(b, min_length) ==
    strings_loop([current |-> <<>>, strings |-> <<>>], b, 1, Len(b),
                 min_length).strings

\* extract_strings(binary_data, min_length): the loop, then the flush of
\* the last run
extract_strings_min(b, min_length) ==
    LET st == strings_loop([current |-> <<>>, strings |-> <<>>], b, 1, Len(b),
                           min_length)
    IN  IF Len(st.current) >= min_length
        THEN Append(st.strings, st.current) ELSE st.strings

extract_strings(b) == extract_strings_min(b, 4)

\* the signatures dict of analyze_binary_data, in its insertion order
signatures ==
    << [sig |-> <<77, 68, 77, 80>>,  desc |-> "Windows Minidump"],  \* b'MDMP'
       [sig |-> <<69, 76, 70>>,      desc |-> "ELF executable"],    \* b'ELF'
       [sig |-> <<127, 69, 76, 70>>, desc |-> "ELF executable"],    \* b'\x7fELF'
       [sig |-> <<80, 75>>,          desc |-> "ZIP/APK archive"],   \* b'PK'
       [sig |-> <<137, 80, 78, 71>>, desc |-> "PNG image"],         \* b'\x89PNG'
       [sig |-> <<71, 73, 70, 56>>,  desc |-> "GIF image"],         \* b'GIF8'
       [sig |-> <<255, 216, 255>>,   desc |-> "JPEG image"] >>      \* b'\xff\xd8\xff'

\* the for/else over a signature table: the description of the first entry
\* the buffer starts with, "Unknown binary format" when the loop ends
first_match(table, b) ==
    LET hits == {k \in 1..Len(table) : StartsAt(b, 0, table[k].sig)}
    IN  IF hits = {} THEN "Unknown binary format"
        ELSE table[CHOOSE k \in hits : \A j \in hits : k <= j].desc

\* a sniffer that first reads a fixed 4-byte magic, so that shorter buffers
\* match nothing
detect_fixed_width(b) ==
    IF Len(b) < 4 THEN "Unknown binary format" ELSE first_match(signatures, b)

detect_file_type(b) == first_match(signatures, b)

analyze_binary_data(b) ==
    [type |-> "binary", size |-> Len(b), data |-> b,
     strings |-> extract_strings(b)]

----------------------------------------------------------------------------
(* crash_analyzer.py: the decoding methods                                 *)

\* an exception leaving a call
Raise == [type |-> "Exception"]

Bytes(b) == [type |-> "bytes", value |-> b]

\* re.sub(r'[^...]', '', s): the characters of s that are in keep
Filter(s, keep) == SelectSeq(s, LAMBDA c : c \in keep)

Upper == 65..90
Lower == 97..122
Digit == 48..57

\* [A-Za-z0-9+/=]
Base64Chars == Upper \cup Lower \cup Digit \cup {43, 47, 61}

\* [0-9A-Fa-f]
HexChars == Digit \cup (65..70) \cup (97..102)

\* binascii's table_a2b_base64: the 6-bit value of a character, 64 when the
\* character is not in the alphabet
table_a2b_base64(c) ==
    IF c \in Upper THEN c - 65
    ELSE IF c \in Lower THEN c - 97 + 26
    ELSE IF c \in Digit THEN c - 48 + 52
    ELSE IF c = 43 THEN 62
    ELSE IF c = 47 THEN 63
    ELSE 64

\* one character of binascii.a2b_base64 (non-strict mode): st.done is set by
\* the "goto done" of a complete pad sequence, after which nothing is read
a2b_step(st, c) ==
    IF st.done THEN st
    ELSE IF c = 61
    THEN IF st.quad_pos >= 2 /\ st.quad_pos + st.pads + 1 >= 4
         THEN [st EXCEPT !.done = TRUE]
         ELSE IF st.quad_pos >= 2 THEN [st EXCEPT !.pads = @ + 1] ELSE st
    ELSE LET v == table_a2b_base64(c)
         IN  IF v >= 64 THEN st
             ELSE CASE st.quad_pos = 0 ->
                         [st EXCEPT !.quad_pos = 1, !.leftchar = v, !.pads = 0]
                    [] st.quad_pos = 1 ->
                         [st EXCEPT !.quad_pos = 2, !.leftchar = v % 16, !.pads = 0,
                              !.out = Append(@, st.leftchar * 4 + (v \div 16))]
                    [] st.quad_pos = 2 ->
                         [st EXCEPT !.quad_pos = 3, !.leftchar = v % 4, !.pads = 0,
                              !.out = Append(@, st.leftchar * 16 + (v \div 4))]
                    [] st.quad_pos = 3 ->
                         [st EXCEPT !.quad_pos = 0, !.leftchar = 0, !.pads = 0,
                              !.out = Append(@, st.leftchar * 64 + v)]

\* the character loop over s[lo..hi] from state st: characters are taken
\* left to right (the range is halved only to keep TLC's evaluation
\* shallow), and none is read once the pad sequence is complete
RECURSIVE a2b_loop(_, _, _, _)
a2b_loop(st, s, lo, hi) ==
    IF lo > hi THEN st
    ELSE IF lo = hi THEN a2b_step(st, s[lo])
    ELSE LET mid == (lo + hi) \div 2
             left == a2b_loop(st, s, lo, mid)
         IN  IF left.done THEN left ELSE a2b_loop(left, s, mid + 1, hi)

\* binascii.a2b_base64 as base64.b64decode calls it: an incomplete last
\* quad is an error, unless a pad sequence ended the input before
a2b_base64(s) ==
    LET st == a2b_loop([quad_pos |-> 0, leftchar |-> 0, pads |-> 0,
                        out |-> <<>>, done |-> FALSE], s, 1, Len(s))
    IN  IF ~st.done /\ st.quad_pos # 0 THEN Raise ELSE Bytes(st.out)

b64decode(s) == a2b_base64(s)

decode_base64(d) ==
    LET clean_data == Filter(d, Base64Chars)
        decoded == b64decode(clean_data)
    IN  IF decoded = Raise THEN None            \* except Exception
        ELSE IF decoded.value # <<>> THEN analyze_binary_data(decoded.value)
        ELSE None

\* the value of one hexadecimal digit
hex_value(c) ==
    IF c \in Digit THEN c - 48
    ELSE IF c \in 65..70 THEN c - 65 + 10
    ELSE c - 97 + 10

\* binascii.unhexlify: an odd number of digits is an error
unhexlify(s) ==
    IF Len(s) % 2 # 0 THEN Raise
    ELSE Bytes([k \in 1..(Len(s) \div 2) |->
                   hex_value(s[2 * k - 1]) * 16 + hex_value(s[2 * k])])

decode_hex(d) ==
    LET clean_data == Filter(d, HexChars)
    IN  IF Len(clean_data) % 2 = 0
        THEN LET decoded == unhexlify(clean_data)
             IN  IF decoded = Raise THEN None   \* except Exception
                 ELSE analyze_binary_data(decoded.value)
        ELSE None

Count(s, class) == Cardinality({i \in 1..Len(s) : s[i] \in class})

\* the patterns dict of analyze_raw_data
raw_patterns(d) ==
    [printable |-> Count(d, 33..126),                           \* [!-~]
     digits    |-> Count(d, Digit),                             \* \d
     letters   |-> Count(d, Upper \cup Lower),                  \* [A-Za-z]
     special   |-> Count(d, (0..255) \ (Upper \cup Lower \cup Digit
                                         \cup Whitespace))]    \* [^A-Za-z0-9\s]

\* count / len(data) raises ZeroDivisionError on the empty string
analyze_raw_data(d) ==
    IF Len(d) = 0 THEN Raise
    ELSE [type |-> "raw_analysis", data |-> d, patterns |-> raw_patterns(d)]

\* a methods list with the first two entries swapped
methods_hex_first == <<"Hex", "Base64", "Raw analysis">>

\* the methods list of decode_crashpad_data
methods == <<"Base64", "Hex", "Raw analysis">>

decode_func(name, d) ==
    CASE name = "Base64" -> decode_base64(d)
      [] name = "Hex" -> decode_hex(d)
      [] name = "Raw analysis" -> analyze_raw_data(d)

\* "if result:" on what a method returned
Truthy(r) == r # None /\ r # Raise

----------------------------------------------------------------------------
(* crash_analyzer.py: decode_crashpad_data, one step per loop iteration    *)

\* blobs are strings over BlobChars of length at most MaxBlobLen
MaxBlobLen == 4

\* 'Q', 'A', '1', '=', '!', ' ', U+00E9 (e acute)
BlobChars == {81, 65, 49, 61, 33, 32, 233}

Strings(chars, n) == UNION {[1..k -> chars] : k \in 0..n}

InitDecode ==
    /\ pc = "decode_call"
    /\ encoded_data \in Strings(BlobChars, MaxBlobLen)
    /\ tried = <<>>
    /\ result = None
    /\ IdleExtract /\ IdleBinary /\ IdleAnalyzer

\* "if not encoded_data: return None"
DecodeEnter ==
    /\ pc = "decode_call"
    /\ pc' = IF encoded_data = <<>> THEN "decode_return" ELSE "decode_loop"
    /\ UNCHANGED <<crash_log, crashpad_data, encoded_data, tried, result,
                   binary_data, file_type, data, pos, call, args, ret>>

\* one iteration of "for method_name, decode_func in methods", with the
\* return that ends the loop and the "return None" that follows it
DecodeTry ==
    /\ pc = "decode_loop"
    /\ LET i == Len(tried) + 1
           r == decode_func(methods[i], encoded_data)
       IN  /\ tried' = Append(tried,
                  [method |-> methods[i],
                   outcome |-> IF r = Raise THEN "raised"
                               ELSE IF Truthy(r) THEN "success"
                               ELSE "declined"])
           /\ result' = IF Truthy(r) THEN r ELSE None
           /\ pc' = IF Truthy(r) \/ i = Len(methods)
                    THEN "decode_return" ELSE "decode_loop"
           /\ file_type' = IF Truthy(r) /\ r.type = "binary"
                           THEN detect_file_type(r.data) ELSE file_type
    /\ UNCHANGED <<crash_log, crashpad_data, encoded_data, binary_data,
                   data, pos, call, args, ret>>

NextDecode == DecodeEnter \/ DecodeTry

SpecDecode == InitDecode /\ [][NextDecode]_vars

\* the strategies in the order the Decoder is to try them
FixedOrder == <<"Base64", "Hex", "Raw analysis">>

\* what a strategy gives when run alone on a blob
StrategyResult(name, d) ==
    IF name = "Base64" THEN decode_base64(d)
    ELSE IF name = "Hex" THEN decode_hex(d)
    ELSE analyze_raw_data(d)

\* C1: the strategies are tried in the order Base64, Hex, Raw analysis; a
\* strategy is tried only after all earlier ones declined, none after a
\* success; the value returned is that of the first strategy that succeeds,
\* and a strategy that throws counts as declined, its exception never
\* being the value returned.
DecoderTriesInFixedOrder ==
    /\ Len(tried) <= Len(FixedOrder)
    /\ \A i \in 1..Len(tried) : tried[i].method = FixedOrder[i]
    /\ \A i \in 1..(Len(tried) - 1) : tried[i].outcome \in {"declined", "raised"}
    /\ pc = "decode_loop" =>
           \A i \in 1..Len(tried) : tried[i].outcome \in {"declined", "raised"}
    /\ result # Raise
    /\ (pc = "decode_return" /\ encoded_data # <<>>) =>
           /\ tried # <<>>
           /\ \/ /\ tried[Len(tried)].outcome = "success"
                 /\ result = StrategyResult(FixedOrder[Len(tried)], encoded_data)
                 /\ result # None
              \/ /\ Len(tried) = Len(FixedOrder)
                 /\ tried[Len(tried)].outcome \in {"declined", "raised"}
                 /\ result = None

\* C1 witness: Base64 threw on the blob, Hex was tried next and its
\* non-empty buffer was returned.
DecoderFellThroughToHex ==
    /\ pc = "decode_return"
    /\ b64decode(Filter(encoded_data, Base64Chars)) = Raise
    /\ Len(tried) = 2
    /\ tried[1] = [method |-> "Base64", outcome |-> "declined"]
    /\ tried[2] = [method |-> "Hex", outcome |-> "success"]
    /\ result.type = "binary" /\ result.size > 0

\* C2: a strategy that decodes the cleaned blob to zero bytes declines, and
\* the buffer of a binary result is never empty.
DecodedBufferNeverEmpty ==
    /\ \A i \in 1..Len(tried) :
          \/ /\ tried[i].method = "Base64"
             /\ b64decode(Filter(encoded_data, Base64Chars)) = Bytes(<<>>)
          \/ /\ tried[i].method = "Hex"
             /\ unhexlify(Filter(encoded_data, HexChars)) = Bytes(<<>>)
          => tried[i].outcome = "declined"
    /\ result.type = "binary" => result.size >= 1 /\ result.data # <<>>

\* when Base64 and Hex both declined on a non-empty blob, Raw analysis was
\* run and succeeded, and the Decoder returns its result: the blob and the
\* four character-class counts over it, never None or an exception
RawAnalysisIsFallback ==
    ( /\ pc = "decode_return"
      /\ encoded_data # <<>>
      /\ Len(tried) >= 2
      /\ tried[1].outcome # "success"
      /\ tried[2].outcome # "success" )
    => /\ Len(tried) = 3
       /\ tried[3] = [method |-> "Raw analysis", outcome |-> "success"]
       /\ result # None /\ result # Raise
       /\ result.type = "raw_analysis"
       /\ result.data = encoded_data
       /\ result.patterns.printable =
              Cardinality({i \in DOMAIN encoded_data :
                             33 <= encoded_data[i] /\ encoded_data[i] <= 126})
       /\ result.patterns.digits =
              Cardinality({i \in DOMAIN encoded_data : encoded_data[i] \in 48..57})
       /\ result.patterns.letters =
              Cardinality({i \in DOMAIN encoded_data :
                             encoded_data[i] \in (65..90) \cup (97..122)})
       /\ result.patterns.special =
              Cardinality({i \in DOMAIN encoded_data :
                             encoded_data[i] \notin (65..90) \cup (97..122)
                                 \cup (48..57) \cup Whitespace})

\* a non-empty blob made only of special characters: no letter, no digit
\* and no whitespace, so nothing in it is a hexadecimal digit
SpecialOnly(s) ==
    /\ s # <<>>
    /\ \A i \in DOMAIN s :
           s[i] \notin (65..90) \cup (97..122) \cup (48..57) \cup Whitespace

\* C10: Raw analysis is an always-succeeding fallback.  Whenever Base64 and
\* Hex both declined on a non-empty blob the Decoder returns the raw-analysis
\* result (the character-class counts over the un-decoded text), and it
\* does so in particular for the blobs made only of whitespace-free special
\* characters, which hold nothing for Base64 or Hex to decode, however
\* short they are.
RawAnalysisAlwaysSucceeds ==
    /\ RawAnalysisIsFallback
    /\ (pc = "decode_return" /\ SpecialOnly(encoded_data)) =>
           /\ result # None /\ result # Raise
           /\ result.type = "raw_analysis"
           /\ result.data = encoded_data

----------------------------------------------------------------------------
(* crash_analyzer.py: analyze_binary_data called on a buffer               *)

\* buffers are concatenations of at most MaxSigFrags fragments
MaxSigFrags == 3

SigFragments ==
    { <<77>>, <<68, 77, 80>>, <<77, 68, 77, 80>>,     \* 'M' 'DMP' 'MDMP'
      <<127>>, <<69, 76, 70>>, <<69>>, <<76, 70>>,    \* 7F 'ELF' 'E' 'LF'
      <<80, 75>>, <<80>>, <<75>>,                     \* 'PK' 'P' 'K'
      <<137>>, <<80, 78, 71>>,                        \* 89 'PNG'
      <<71, 73, 70>>, <<56>>,                         \* 'GIF' '8'
      <<255>>, <<216>>, <<0>> }                       \* FF D8 00

InitBinary ==
    /\ pc = "binary_call"
    /\ binary_data \in Concats(SigFragments, MaxSigFrags)
    /\ file_type = None
    /\ IdleExtract /\ IdleDecode /\ IdleAnalyzer

AnalyzeBinary ==
    /\ pc = "binary_call"
    /\ result' = analyze_binary_data(binary_data)
    /\ file_type' = detect_file_type(binary_data)
    /\ pc' = "binary_return"
    /\ UNCHANGED <<crash_log, crashpad_data, encoded_data, tried,
                   binary_data, data, pos, call, args, ret>>

SpecBinary == InitBinary /\ [][AnalyzeBinary]_vars

\* the signatures in the order the Format Sniffer declares them
DeclaredSignatures ==
    << [sig |-> <<77, 68, 77, 80>>,  tag |-> "Windows Minidump"],
       [sig |-> <<127, 69, 76, 70>>, tag |-> "ELF executable"],
       [sig |-> <<69, 76, 70>>,      tag |-> "ELF executable"],
       [sig |-> <<80, 75>>,          tag |-> "ZIP/APK archive"],
       [sig |-> <<137, 80, 78, 71>>, tag |-> "PNG image"],
       [sig |-> <<71, 73, 70, 56>>,  tag |-> "GIF image"],
       [sig |-> <<255, 216, 255>>,   tag |-> "JPEG image"] >>

IsPrefix(sig, b) == Len(sig) <= Len(b) /\ SubSeq(b, 1, Len(sig)) = sig

\* C7: the type reported for a non-empty buffer is the tag of the first
\* declared signature that is a byte-prefix of it, Unknown when none is; the
\* 2-byte buffer 50 4B is ZIP/APK and a buffer starting 7F 45 4C 46 is ELF.
SnifferFirstPrefixWins ==
    (pc = "binary_return" /\ binary_data # <<>>) =>
        /\ \A k \in 1..Len(DeclaredSignatures) :
              ( /\ IsPrefix(DeclaredSignatures[k].sig, binary_data)
                /\ \A j \in 1..(k - 1) :
                      ~IsPrefix(DeclaredSignatures[j].sig, binary_data) )
              => file_type = DeclaredSignatures[k].tag
        /\ (\A k \in 1..Len(DeclaredSignatures) :
                ~IsPrefix(DeclaredSignatures[k].sig, binary_data))
              => file_type = "Unknown binary format"
        /\ binary_data = <<80, 75>> => file_type = "ZIP/APK archive"
        /\ IsPrefix(<<127, 69, 76, 70>>, binary_data)
              => file_type = "ELF executable"

\* C7 witness: the 2-byte buffer 50 4B has been classified ZIP/APK.
SnifferClassifiedShortZip ==
    /\ pc = "binary_return"
    /\ binary_data = <<80, 75>>
    /\ file_type = "ZIP/APK archive"

----------------------------------------------------------------------------
(* minidump_analyzer.py: class MinidumpAnalyzer.                           *)
(* A Python int is the tuple <<l3, l2, l1, l0>> of its four 16-bit limbs,  *)
(* most significant first (the ints read here are below 2^64); an optional *)
(* int is None or PyInt of the tuple.  A method that moves the cursor is   *)
(* an operator of (data, pos) giving [ret, pos].                           *)

PyInt(limbs) == [type |-> "int", value |-> limbs]

Zero == <<0, 0, 0, 0>>

\* a <= b on ints
IntLe(a, b) ==
    \/ a = b
    \/ \E k \in 1..4 : a[k] < b[k] /\ \A j \in 1..(k - 1) : a[j] = b[j]

\* struct.unpack('<I', d[p:p+4])[0] for a 0-based offset p
unpack_I(d, p) == <<0, 0, d[p + 4] * 256 + d[p + 3], d[p + 2] * 256 + d[p + 1]>>

\* struct.unpack('<Q', d[p:p+8])[0] for a 0-based offset p
unpack_Q(d, p) ==
    <<d[p + 8] * 256 + d[p + 7], d[p + 6] * 256 + d[p + 5],
      d[p + 4] * 256 + d[p + 3], d[p + 2] * 256 + d[p + 1]>>

read_uint32(d, p) ==
    IF p + 4 > Len(d) THEN [ret |-> None, pos |-> p]
    ELSE [ret |-> PyInt(unpack_I(d, p)), pos |-> p + 4]

read_uint64(d, p) ==
    IF p + 8 > Len(d) THEN [ret |-> None, pos |-> p]
    ELSE [ret |-> PyInt(unpack_Q(d, p)), pos |-> p + 8]

\* read_bytes that pads a short read with zero bytes and moves the cursor
\* all the same
read_bytes_zero_filled(d, p, count) ==
    [ret |-> Bytes([i \in 1..count |-> IF p + i <= Len(d) THEN d[p + i] ELSE 0]),
     pos |-> p + count]

read_bytes(d, p, count) ==
    IF p + count > Len(d) THEN [ret |-> None, pos |-> p]
    ELSE [ret |-> Bytes(Slice(d, p, p + count)), pos |-> p + count]

\* "if version:" on an optional int: None and 0 are both false
IntTruthy(v) == v # None /\ v # PyInt(Zero)

\* header[key] = v under "if v:"
set_if_truthy(header, key, v) ==
    IF IntTruthy(v) THEN header @@ (key :> v.value) ELSE header

\* the header dict is the function from the keys present to their ints
_parse_mdmp_header(d, p) ==
    LET version == read_uint32(d, p)
        stream_count == read_uint32(d, version.pos)
        stream_directory_rva == read_uint32(d, stream_count.pos)
        h1 == set_if_truthy(<<>>, "version", version.ret)
        h2 == set_if_truthy(h1, "stream_count", stream_count.ret)
        h3 == set_if_truthy(h2, "stream_directory_rva", stream_directory_rva.ret)
    IN  [ret |-> h3, pos |-> stream_directory_rva.pos]

\* The float -sum p*log2(p) is a function of the multiset of the non-zero
\* byte frequencies and the length; it is carried as that multiset (count
\* |-> number of byte values with that count).  Only the byte values that
\* occur have a non-zero freq[byte]; empty data gives 0.0: no terms.
_calculate_entropy(d) ==
    LET occurring == {d[i] : i \in 1..Len(d)}
        freq == [byte \in occurring |-> Cardinality({i \in 1..Len(d) : d[i] = byte})]
        counts == {freq[byte] : byte \in occurring}
    IN  [type |-> "float", n |-> Len(d),
         terms |-> [c \in counts |->
                       Cardinality({byte \in occurring : freq[byte] = c})]]

\* the slices data[i:i+pattern_len] in the order of the inner loop
windows_of(d, pattern_len) ==
    [i \in 1..Max(0, Len(d) - pattern_len + 1) |-> SubSeq(d, i, i + pattern_len - 1)]

\* sorted(items, key=lambda x: x[1], reverse=True): count descending, items
\* of equal count keeping their order (the sort is stable)
sorted_by_count_desc(items) ==
    LET n == Len(items)
        rank(i) == Cardinality({j \in 1..n : items[j][2] > items[i][2]})
                   + Cardinality({j \in 1..(i - 1) : items[j][2] = items[i][2]}) + 1
    IN  [r \in 1..n |-> items[CHOOSE i \in 1..n : rank(i) = r]]

\* the patterns dict filled over the windows w (keys in first-insertion
\* order), its items with count > 1, sorted
patterns_over(w) ==
    LET count(pat) == Cardinality({j \in 1..Len(w) : w[j] = pat})
        kept == SelectSeq([i \in 1..Len(w) |-> i],
                          LAMBDA i : /\ \A j \in 1..(i - 1) : w[j] # w[i]
                                     /\ count(w[i]) > 1)
    IN  sorted_by_count_desc([k \in 1..Len(kept) |->
                                 <<w[kept[k]], count(w[kept[k]])>>])

\* a miner whose length loop is range(2, 4): lengths 2 and 3 only
find_patterns_to_3(d) == patterns_over(windows_of(d, 2) \o windows_of(d, 3))

\* "for pattern_len in range(2, 5)"
_find_patterns(d) ==
    patterns_over(windows_of(d, 2) \o windows_of(d, 3) \o windows_of(d, 4))

_analyze_unknown_format(d) ==
    [format |-> "unknown", size |-> Len(d),
     entropy |-> _calculate_entropy(d), patterns |-> _find_patterns(d)]

\* a header analysis that takes the unknown-format branch for every buffer
analyze_header_no_branch(d) ==
    [ret |-> _analyze_unknown_format(d), pos |-> read_bytes(d, 0, 4).pos]

\* seek(0), read the signature, branch on it
analyze_header(d) ==
    LET signature == read_bytes(d, 0, 4)
    IN  IF signature.ret = Bytes(<<77, 68, 77, 80>>)
        THEN _parse_mdmp_header(d, signature.pos)
        ELSE [ret |-> _analyze_unknown_format(d), pos |-> signature.pos]

MinidumpAnalyzer_extract_strings(d) == extract_strings_min(d, 4)

\* 0x10000000, 0xFFFFFFFF, 0x100000000, 0x7FFFFFFFFFFF
Addr32Low == <<0, 0, 4096, 0>>
Addr32High == <<0, 0, 65535, 65535>>
Addr64Low == <<0, 1, 0, 0>>
Addr64High == <<0, 32767, 65535, 65535>>

\* list(set(addresses)): the set of the ints appended
analyze_potential_addresses(d) ==
    LET offsets == {i \in 0..(Len(d) - 8 - 1) : i % 4 = 0}   \* range(0, len - 8, 4)
    IN  {unpack_I(d, i) : i \in {j \in offsets :
              IntLe(Addr32Low, unpack_I(d, j)) /\ IntLe(unpack_I(d, j), Addr32High)}}
        \cup
        {unpack_Q(d, i) : i \in {j \in offsets :
              /\ j + 8 <= Len(d)
              /\ IntLe(Addr64Low, unpack_Q(d, j))
              /\ IntLe(unpack_Q(d, j), Addr64High)}}

crash_keywords ==
    << <<83, 73, 71, 83, 69, 71, 86>>,                     \* SIGSEGV
       <<83, 73, 71, 65, 66, 82, 84>>,                     \* SIGABRT
       <<83, 73, 71, 66, 85, 83>>,                         \* SIGBUS
       <<83, 73, 71, 70, 80, 69>>,                         \* SIGFPE
       <<83, 73, 71, 73, 76, 76>>,                         \* SIGILL
       <<115, 101, 103, 102, 97, 117, 108, 116>>,          \* segfault
       <<97, 98, 111, 114, 116>>,                          \* abort
       <<99, 114, 97, 115, 104>>,                          \* crash
       <<101, 120, 99, 101, 112, 116, 105, 111, 110>>,     \* exception
       <<102, 97, 117, 108, 116>>,                         \* fault
       <<115, 116, 97, 99, 107>>,                          \* stack
       <<104, 101, 97, 112>>,                              \* heap
       <<109, 101, 109, 111, 114, 121>>,                   \* memory
       <<110, 117, 108, 108>>,                             \* null
       <<97, 99, 99, 101, 115, 115>>,                      \* access
       <<108, 105, 98, 97, 110, 100, 114, 111, 105, 100>>, \* libandroid
       <<108, 105, 98, 99, 46, 115, 111>>,                 \* libc.so
       <<108, 105, 98, 109, 46, 115, 111>>,                \* libm.so
       <<108, 105, 98, 108, 111, 103, 46, 115, 111>> >>    \* liblog.so

\* a hit that records the last occurrence (rfind) instead of the first
keyword_hit_last(d, keyword) ==
    LET p == MaxOf(Occurrences(d, keyword, 0))
    IN  [keyword |-> keyword, position |-> p,
         context |-> Slice(d, Max(0, p - 10), p + Len(keyword) + 10)]

\* the dict appended for a keyword that is in the data
keyword_hit(d, keyword) ==
    LET p == find(d, keyword)
    IN  [keyword |-> keyword, position |-> p,
         context |-> Slice(d, Max(0, p - 10), p + Len(keyword) + 10)]

\* "for keyword in crash_keywords: if keyword in self.data: append"
suspicious_patterns(d) ==
    LET present == SelectSeq([k \in 1..Len(crash_keywords) |-> k],
                             LAMBDA k : Contains(d, crash_keywords[k]))
    IN  [h \in 1..Len(present) |-> keyword_hit(d, crash_keywords[present[h]])]

search_for_crash_info(d) ==
    [strings |-> MinidumpAnalyzer_extract_strings(d),
     potential_addresses |-> analyze_potential_addresses(d),
     suspicious_patterns |-> suspicious_patterns(d)]

----------------------------------------------------------------------------
(* MinidumpAnalyzer(binary_data) and calls of its methods                  *)

IdleCrashAnalyzer ==
    /\ pc = "analyzer" /\ IdleExtract /\ IdleDecode /\ IdleBinary

\* __init__
Construct(buffers) ==
    /\ IdleCrashAnalyzer
    /\ data \in buffers
    /\ pos = 0
    /\ call = "none"
    /\ args = <<>>
    /\ ret = None

UnchangedCrashAnalyzer ==
    UNCHANGED <<pc, crash_log, crashpad_data, encoded_data, tried, result,
                binary_data, file_type>>

AnalyzeHeader ==
    /\ call' = "analyze_header"
    /\ args' = <<>>
    /\ ret' = analyze_header(data).ret
    /\ pos' = analyze_header(data).pos
    /\ UNCHANGED data /\ UnchangedCrashAnalyzer

FindPatterns ==
    /\ call' = "_find_patterns"
    /\ args' = <<>>
    /\ ret' = _find_patterns(data)
    /\ UNCHANGED <<data, pos>> /\ UnchangedCrashAnalyzer

AnalyzePotentialAddresses ==
    /\ call' = "analyze_potential_addresses"
    /\ args' = <<>>
    /\ ret' = analyze_potential_addresses(data)
    /\ UNCHANGED <<data, pos>> /\ UnchangedCrashAnalyzer

SearchForCrashInfo ==
    /\ call' = "search_for_crash_info"
    /\ args' = <<>>
    /\ ret' = search_for_crash_info(data)
    /\ UNCHANGED <<data, pos>> /\ UnchangedCrashAnalyzer

----------------------------------------------------------------------------
(* analyze_header on buffers with and without the MDMP signature           *)

\* header buffers are concatenations of at most MaxHdrFrags fragments
MaxHdrFrags == 4

HdrFragments ==
    { <<77, 68, 77, 80>>,        \* 'MDMP'
      <<77, 68>>,                \* 'MD'
      <<0, 0, 0, 0>>,            \* 0
      <<1, 0, 0, 0>>,            \* 1
      <<2, 0, 0, 0>>,            \* 2
      <<16, 0, 0, 0>>,           \* 16
      <<0>>,
      <<97, 98, 97, 98>> }       \* 'abab'

InitHeader == Construct(Concats(HdrFragments, MaxHdrFrags))

SpecHeader == InitHeader /\ [][AnalyzeHeader]_vars

MDMP == <<77, 68, 77, 80>>

HeaderKeys == {"version", "stream_count", "stream_directory_rva"}

\* C4: for a buffer that begins with 'MDMP', version, stream_count and
\* stream_directory_rva are in the header exactly when the buffer has at
\* least 8, 12 and 16 bytes, each with the little-endian 32-bit value at
\* offset 4, 8 and 12; 4D 44 4D 50 01 00 00 00 02 00 00 00 10 00 00 00 gives
\* version=1, streamCount=2, streamDirectoryOffset=16.
HeaderFieldsPresentIffReadable ==
    (call = "analyze_header" /\ IsPrefix(MDMP, data)) =>
        /\ "version" \in DOMAIN ret <=> Len(data) >= 8
        /\ "stream_count" \in DOMAIN ret <=> Len(data) >= 12
        /\ "stream_directory_rva" \in DOMAIN ret <=> Len(data) >= 16
        /\ "version" \in DOMAIN ret => ret["version"] = unpack_I(data, 4)
        /\ "stream_count" \in DOMAIN ret => ret["stream_count"] = unpack_I(data, 8)
        /\ "stream_directory_rva" \in DOMAIN ret =>
               ret["stream_directory_rva"] = unpack_I(data, 12)
        /\ data = <<77, 68, 77, 80, 1, 0, 0, 0, 2, 0, 0, 0, 16, 0, 0, 0>> =>
               /\ DOMAIN ret = HeaderKeys
               /\ ret["version"] = <<0, 0, 0, 1>>
               /\ ret["stream_count"] = <<0, 0, 0, 2>>
               /\ ret["stream_directory_rva"] = <<0, 0, 0, 16>>

\* C6 as stated: for a buffer of Minidump signature the analysis produces
\* entropy and repeating patterns besides the header, as it does for a
\* buffer of unknown signature.
ForensicsRunOnEveryBuffer ==
    call = "analyze_header" =>
        /\ {"entropy", "patterns"} \subseteq DOMAIN ret
        /\ ret["patterns"] = _find_patterns(data)

\* C6 amended: analyze_header produces entropy and repeating patterns only
\* for a buffer that does not begin with 'MDMP' (format unknown, with its
\* size); for a buffer that begins with 'MDMP' it produces the header
\* fields alone.
ForensicsOnlyOnUnknownSignature ==
    call = "analyze_header" =>
        IF IsPrefix(MDMP, data)
        THEN DOMAIN ret \subseteq HeaderKeys
        ELSE /\ DOMAIN ret = {"format", "size", "entropy", "patterns"}
             /\ ret["format"] = "unknown"
             /\ ret["size"] = Len(data)
             /\ ret["entropy"].n = Len(data)
             /\ ret["patterns"] = _find_patterns(data)

\* C6 witness: a Minidump buffer with repeated slices has been analysed and
\* the result holds header fields but neither entropy nor patterns.
MinidumpHeaderWithoutForensics ==
    /\ call = "analyze_header"
    /\ IsPrefix(MDMP, data)
    /\ _find_patterns(data) # <<>>
    /\ "version" \in DOMAIN ret
    /\ "entropy" \notin DOMAIN ret
    /\ "patterns" \notin DOMAIN ret

----------------------------------------------------------------------------
(* analyze_potential_addresses on buffers of address-like words            *)

\* address buffers are concatenations of at most MaxAddrFrags fragments
MaxAddrFrags == 4

AddrFragments ==
    { <<0, 0, 0, 16>>,           \* 0x10000000
      <<255, 255, 255, 255>>,    \* 0xFFFFFFFF
      <<0, 0, 0, 0>>,
      <<1, 0, 0, 0>>,            \* 1: as high word, a 64-bit value in range
      <<255, 127, 0, 0>>,        \* 0x7FFF: as high word, the upper bound
      <<0, 128, 0, 0>>,          \* 0x8000: as high word, above the bound
      <<16>> }

InitAddresses == Construct(Concats(AddrFragments, MaxAddrFrags))

SpecAddresses == InitAddresses /\ [][AnalyzePotentialAddresses]_vars

\* the offsets that are multiples of 4 with at least width bytes remaining
AlignedOffsets(d, width) == {i \in 0..(Len(d) - width) : i % 4 = 0}

\* C5: the candidates are the 32-bit values in [0x10000000, 0xFFFFFFFF] read
\* at every multiple of 4 with at least 4 bytes remaining, together with the
\* 64-bit values in [0x100000000, 0x7FFFFFFFFFFF] read at every multiple of 4
\* with at least 8 bytes remaining; 00 00 00 10 yields 0x10000000 and
\* FF FF FF FF FF FF FF FF yields 0xFFFFFFFF and no 64-bit candidate.
CandidatesAreAllAlignedReads ==
    call = "analyze_potential_addresses" =>
        /\ ret = {unpack_I(data, i) : i \in {j \in AlignedOffsets(data, 4) :
                      /\ IntLe(<<0, 0, 4096, 0>>, unpack_I(data, j))
                      /\ IntLe(unpack_I(data, j), <<0, 0, 65535, 65535>>)}}
                 \cup
                 {unpack_Q(data, i) : i \in {j \in AlignedOffsets(data, 8) :
                      /\ IntLe(<<0, 1, 0, 0>>, unpack_Q(data, j))
                      /\ IntLe(unpack_Q(data, j), <<0, 32767, 65535, 65535>>)}}
        /\ data = <<0, 0, 0, 16>> => ret = {<<0, 0, 4096, 0>>}
        /\ data = <<255, 255, 255, 255, 255, 255, 255, 255>> =>
               ret = {<<0, 0, 65535, 65535>>}

----------------------------------------------------------------------------
(* _find_patterns on short buffers over three byte values                  *)

\* pattern buffers have at most MaxPatLen bytes
MaxPatLen == 6

\* 'a', 'b', 'c'
PatBytes == {97, 98, 99}

InitPatterns == Construct(Strings(PatBytes, MaxPatLen))

SpecPatterns == InitPatterns /\ [][FindPatterns]_vars

\* the contiguous slices of d of length 2, 3 or 4 that occur more than once
RepeatedSlices(d) ==
    {p \in {SubSeq(d, i, i + l - 1) : <<i, l>> \in
                {<<i, l>> \in (1..Len(d)) \X (2..4) : i + l - 1 <= Len(d)}} :
        Cardinality(Occurrences(d, p, 0)) > 1}

\* the result holds exactly the repeated slices, each once, with its
\* number of (overlapping) occurrences, in descending order of that number
PatternsAreRepeatedSlices ==
    /\ {ret[k] : k \in 1..Len(ret)} =
           {<<p, Cardinality(Occurrences(data, p, 0))>> : p \in RepeatedSlices(data)}
    /\ Len(ret) = Cardinality(RepeatedSlices(data))
    /\ \A i, j \in 1..Len(ret) : i < j => ret[i][2] >= ret[j][2]

\* C8 as stated: exactly the repeated slices with their counts, by count
\* descending and, among equal counts, by pattern length descending.
PatternsByCountThenLengthDesc ==
    call = "_find_patterns" =>
        /\ PatternsAreRepeatedSlices
        /\ \A i, j \in 1..Len(ret) :
              (i < j /\ ret[i][2] = ret[j][2]) => Len(ret[i][1]) >= Len(ret[j][1])

\* C8 amended: exactly the repeated slices with their counts, by count
\* descending and, among equal counts, by pattern length ascending, then by
\* the offset of the first occurrence.
PatternsByCountThenInsertion ==
    call = "_find_patterns" =>
        /\ PatternsAreRepeatedSlices
        /\ \A i, j \in 1..Len(ret) :
              (i < j /\ ret[i][2] = ret[j][2]) =>
                  \/ Len(ret[i][1]) < Len(ret[j][1])
                  \/ /\ Len(ret[i][1]) = Len(ret[j][1])
                     /\ find(data, ret[i][1]) < find(data, ret[j][1])

\* C8 witness: 'abcabc' has been mined: 'ab', 'bc' and 'abc' twice each, the
\* shorter patterns first.
PatternsOfAbcabc ==
    /\ call = "_find_patterns"
    /\ data = <<97, 98, 99, 97, 98, 99>>
    /\ ret = << <<<<97, 98>>, 2>>, <<<<98, 99>>, 2>>, <<<<97, 98, 99>>, 2>> >>

----------------------------------------------------------------------------
(* search_for_crash_info on buffers that hold keywords                     *)

\* keyword buffers are concatenations of at most MaxKwFrags fragments
MaxKwFrags == 4

KwFragments ==
    { <<108, 105, 98, 99, 46, 115, 111>>,            \* 'libc.so'
      <<110, 117, 108, 108>>,                        \* 'null'
      <<104, 101, 97, 112>>,                         \* 'heap'
      <<115, 101, 103, 102, 97, 117, 108, 116>>,     \* 'segfault'
      <<0>>,
      <<48, 49, 50, 51, 52, 53, 54, 55, 56, 57, 58, 59>> }  \* filler, 12 bytes

InitSearch == Construct(Concats(KwFragments, MaxKwFrags))

SpecSearch == InitSearch /\ [][SearchForCrashInfo]_vars

\* the crash-keyword dictionary in declaration order
Dictionary ==
    << <<83, 73, 71, 83, 69, 71, 86>>, <<83, 73, 71, 65, 66, 82, 84>>,
       <<83, 73, 71, 66, 85, 83>>, <<83, 73, 71, 70, 80, 69>>,
       <<83, 73, 71, 73, 76, 76>>, <<115, 101, 103, 102, 97, 117, 108, 116>>,
       <<97, 98, 111, 114, 116>>, <<99, 114, 97, 115, 104>>,
       <<101, 120, 99, 101, 112, 116, 105, 111, 110>>,
       <<102, 97, 117, 108, 116>>, <<115, 116, 97, 99, 107>>,
       <<104, 101, 97, 112>>, <<109, 101, 109, 111, 114, 121>>,
       <<110, 117, 108, 108>>, <<97, 99, 99, 101, 115, 115>>,
       <<108, 105, 98, 97, 110, 100, 114, 111, 105, 100>>,
       <<108, 105, 98, 99, 46, 115, 111>>, <<108, 105, 98, 109, 46, 115, 111>>,
       <<108, 105, 98, 108, 111, 103, 46, 115, 111>> >>

DictIndex(kw) == CHOOSE k \in 1..Len(Dictionary) : Dictionary[k] = kw

OccursAt(d, kw, off) ==
    /\ off >= 0 /\ off + Len(kw) <= Len(d)
    /\ SubSeq(d, off + 1, off + Len(kw)) = kw

\* C9: every keyword of the dictionary has one hit if it occurs in the
\* buffer and none otherwise; the hit's offset is that of the first
\* occurrence, its context the slice from max(0, offset-10) to
\* min(length, offset+keyword length+10); hits are in dictionary order.
KeywordHitsAreFirstOccurrences ==
    call = "search_for_crash_info" =>
        LET hits == ret.suspicious_patterns
        IN  /\ \A k \in 1..Len(Dictionary) :
                  Cardinality({h \in 1..Len(hits) : hits[h].keyword = Dictionary[k]})
                  = IF \E off \in 0..Len(data) : OccursAt(data, Dictionary[k], off)
                    THEN 1 ELSE 0
            /\ \A h \in 1..Len(hits) :
                  /\ \E k \in 1..Len(Dictionary) : hits[h].keyword = Dictionary[k]
                  /\ OccursAt(data, hits[h].keyword, hits[h].position)
                  /\ \A off \in 0..(hits[h].position - 1) :
                        ~OccursAt(data, hits[h].keyword, off)
                  /\ hits[h].context =
                        SubSeq(data, Max(0, hits[h].position - 10) + 1,
                               Min(Len(data),
                                   hits[h].position + Len(hits[h].keyword) + 10))
            /\ \A g, h \in 1..Len(hits) :
                  g < h => DictIndex(hits[g].keyword) < DictIndex(hits[h].keyword)

\* C9 witness: 'libc.so' occurs twice and has one hit, at its first
\* occurrence, and the hits are not in offset order.
KeywordRepeatedAndOutOfOffsetOrder ==
    /\ call = "search_for_crash_info"
    /\ LET hits == ret.suspicious_patterns
           libc == <<108, 105, 98, 99, 46, 115, 111>>
       IN  /\ Cardinality({off \in 0..Len(data) : OccursAt(data, libc, off)}) >= 2
           /\ \E h \in 1..Len(hits) :
                 /\ hits[h].keyword = libc
                 /\ hits[h].position > 10
                 /\ hits[h].position + Len(libc) + 10 > Len(data)
           /\ \E g, h \in 1..Len(hits) : g < h /\ hits[g].position > hits[h].position

----------------------------------------------------------------------------
(* extract_strings: the function of crash_analyzer.py and the method of    *)
(* MinidumpAnalyzer, both run on the same buffer                           *)

\* string buffers are concatenations of at most MaxStrFrags fragments
MaxStrFrags == 4

StrFragments ==
    { <<65, 66, 67, 68>>,        \* 'ABCD'
      <<97, 98, 99>>,            \* 'abc'
      <<32, 126>>,               \* ' ~', the two ends of the printable range
      <<97>>,                    \* 'a'
      <<0>>,
      <<31>>,                    \* just below the printable range
      <<127>>,                   \* just above the printable range
      <<255, 97, 98, 99, 10>> }  \* 'abc' between two bytes outside the range

InitStrings ==
    /\ pc = "strings_call"
    /\ binary_data \in Concats(StrFragments, MaxStrFrags)
    /\ file_type = None
    /\ IdleExtract /\ IdleDecode
    /\ data = binary_data
    /\ pos = 0
    /\ call = "none"
    /\ args = <<>>
    /\ ret = None

\* printable_strings = extract_strings(binary_data)
ExtractStrings ==
    /\ pc = "strings_call"
    /\ result' = extract_strings(binary_data)
    /\ pc' = "strings_return"
    /\ UNCHANGED <<crash_log, crashpad_data, encoded_data, tried,
                   binary_data, file_type, data, pos, call, args, ret>>

\* self.extract_strings()
AnalyzerExtractStrings ==
    /\ call' = "extract_strings"
    /\ args' = <<>>
    /\ ret' = MinidumpAnalyzer_extract_strings(data)
    /\ UNCHANGED <<data, pos>> /\ UnchangedCrashAnalyzer

NextStrings == ExtractStrings \/ AnalyzerExtractStrings

SpecStrings == InitStrings /\ [][NextStrings]_vars

Printable(byte) == 32 <= byte /\ byte <= 126

\* the offsets (1-based) at which a maximal run of printable bytes starts
RunStarts(b) ==
    {i \in 1..Len(b) : Printable(b[i]) /\ (i = 1 \/ ~Printable(b[i - 1]))}

\* the last offset of the maximal run that starts at i
RunLast(b, i) ==
    CHOOSE j \in i..Len(b) :
        /\ \A k \in i..j : Printable(b[k])
        /\ j = Len(b) \/ ~Printable(b[j + 1])

\* the starts of the maximal runs of at least 4 bytes
LongRunStarts(b) == {i \in RunStarts(b) : RunLast(b, i) - i + 1 >= 4}

\* strs is the sequence of the maximal runs of at least 4 printable bytes of
\* b, one entry per run, in the order of their offsets
IsRunsInBufferOrder(strs, b) ==
    /\ Len(strs) = Cardinality(LongRunStarts(b))
    /\ \A i \in LongRunStarts(b) :
           strs[Cardinality({j \in LongRunStarts(b) : j <= i})]
               = SubSeq(b, i, RunLast(b, i))
    /\ \A n \in 1..Len(strs) :
           Len(strs[n]) >= 4 /\ \A k \in 1..Len(strs[n]) : Printable(strs[n][k])

\* C11: for every buffer, printable-string extraction (the function and the
\* method alike) returns exactly the maximal runs of bytes in 32..126 that
\* are at least 4 long, in buffer order and without deduplication; a run
\* that reaches the end of the buffer is returned like any other, shorter
\* runs are dropped, and every returned string has only bytes in 32..126.
StringsAreMaximalPrintableRuns ==
    /\ pc = "strings_return" => IsRunsInBufferOrder(result, binary_data)
    /\ call = "extract_strings" => IsRunsInBufferOrder(ret, data)

\* C11 witness: both extractions ran on a buffer that has the same run twice
\* (the second one ended by the end of the buffer), a run of 3 between
\* them and the byte 31 in front
StringsRepeatedAndFlushedAtEnd ==
    /\ pc = "strings_return" /\ call = "extract_strings"
    /\ result = ret
    /\ data = <<31, 65, 66, 67, 68, 255, 97, 98, 99, 10, 65, 66, 67, 68>>
    /\ ret = << <<65, 66, 67, 68>>, <<65, 66, 67, 68>> >>

----------------------------------------------------------------------------
(* the reader of MinidumpAnalyzer: seek, read_uint32, read_uint64,         *)
(* read_bytes called in any order on a constructed analyzer                *)

\* reader buffers are concatenations of at most MaxRdFrags fragments
MaxRdFrags == 3

\* read_bytes is called with a count of at most MaxCount
MaxCount == 3

RdFragments ==
    { <<1, 2, 3, 4>>,
      <<5>>,
      <<0, 0>>,
      <<250, 251, 252>> }

\* seek(position): the cursor is set, nothing is returned
seek(d, p, position) == [ret |-> None, pos |-> position]

InitReader == Construct(Concats(RdFragments, MaxRdFrags))

\* self.seek(position), for an offset up to one past the end of the buffer
Seek ==
    \E position \in 0..(Len(data) + 1) :
        /\ call' = "seek"
        /\ args' = <<position>>
        /\ ret' = seek(data, pos, position).ret
        /\ pos' = seek(data, pos, position).pos
        /\ UNCHANGED data /\ UnchangedCrashAnalyzer

ReadUint32 ==
    /\ call' = "read_uint32"
    /\ args' = <<>>
    /\ ret' = read_uint32(data, pos).ret
    /\ pos' = read_uint32(data, pos).pos
    /\ UNCHANGED data /\ UnchangedCrashAnalyzer

ReadUint64 ==
    /\ call' = "read_uint64"
    /\ args' = <<>>
    /\ ret' = read_uint64(data, pos).ret
    /\ pos' = read_uint64(data, pos).pos
    /\ UNCHANGED data /\ UnchangedCrashAnalyzer

ReadBytes ==
    \E count \in 0..MaxCount :
        /\ call' = "read_bytes"
        /\ args' = <<count>>
        /\ ret' = read_bytes(data, pos, count).ret
        /\ pos' = read_bytes(data, pos, count).pos
        /\ UNCHANGED data /\ UnchangedCrashAnalyzer

NextReader == Seek \/ ReadUint32 \/ ReadUint64 \/ ReadBytes

SpecReader == InitReader /\ [][NextReader]_vars

Reads == {"read_uint32", "read_uint64", "read_bytes"}

\* the number of bytes the read that made this step asked for
Requested ==
    CASE call' = "read_uint32" -> 4
      [] call' = "read_uint64" -> 8
      [] call' = "read_bytes"  -> args'[1]

\* the value a successful read returns: the bytes at the cursor, as they
\* are or as a little-endian unsigned integer (in 16-bit limbs, most
\* significant first)
ValueAtCursor ==
    LET byte(i) == data[pos + i]
        limb(i) == byte(i + 1) * 256 + byte(i)
    IN  CASE call' = "read_uint32" -> PyInt(<<0, 0, limb(3), limb(1)>>)
          [] call' = "read_uint64" ->
                 PyInt(<<limb(7), limb(5), limb(3), limb(1)>>)
          [] call' = "read_bytes"  ->
                 Bytes([i \in 1..Requested |-> byte(i)])

CursorInBuffer(p) == 0 <= p /\ p <= Len(data)

ReaderStep ==
    /\ (call' = "seek" /\ args' = <<0>>) => pos' = 0
    /\ call' \in Reads =>
          /\ data' = data
          /\ IF pos + Requested <= Len(data)
             THEN /\ ret' # None
                  /\ ret' = ValueAtCursor
                  /\ pos' = pos + Requested
             ELSE /\ ret' = None
                  /\ pos' = pos
          /\ CursorInBuffer(pos) => CursorInBuffer(pos')

\* C12: the cursor advances only on success.  A read_uint32, read_uint64 or
\* read_bytes(n), n >= 0, either returns the 4, 8 or n bytes at the cursor
\* as its value and advances the cursor by exactly that many, or, when
\* fewer bytes remain, returns None and leaves the cursor and the buffer
\* as they were; seek(0) puts the cursor at 0 and a read made with the
\* cursor in 0..size leaves it in 0..size, so no read returns bytes from
\* beyond the end of the buffer.
CursorAdvancesOnlyOnSuccess == [][ReaderStep]_vars

\* C12 witness: after reads that advanced the cursor to offset 8 or
\* further, read_bytes(3) found only 2 bytes left, returned None and left
\* the cursor where it was
ShortReadAfterAdvancing ==
    /\ call = "read_bytes" /\ args = <<3>>
    /\ ret = None
    /\ pos >= 8
    /\ pos = Len(data) - 2

====
